---- MODULE Spec2Model ----
(***************************************************************************)
(* Model of joinlater/crypto.py: the class PrivateKeyCertPair, its three   *)
(* constructors, the password-protected load protocol, the accessors and   *)
(* the re-export save_as_pem_files.                                        *)
(*                                                                         *)
(* The program is synchronous and single-threaded.  One action is one API  *)
(* call run up to the point where it returns, raises, or blocks in getpass *)
(* waiting for the operator; answering the prompt is the next action and   *)
(* runs the recursive call up to the next such point.  The constructors    *)
(* are class methods: while one runs, and after one has raised, there is   *)
(* no instance (pair = NoPair); the one it returns is the instance the     *)
(* later calls act on.                                                     *)
(*                                                                         *)
(* Values.  Python str is a tuple of characters, bytes is the tuple        *)
(* <<"utf8">> \o str, None is the tuple <<"None">> where a str/bytes is    *)
(* expected and the string "None" where a key or a certificate is          *)
(* expected.  File contents are tuples built by the encoders below.        *)
(***************************************************************************)
EXTENDS Integers, Sequences, FiniteSets, TLC

(* ---------------------------- bounds ---------------------------------- *)

\* the operator answers at most this many prompts of one load
MaxAnswers == 2

(* --------------------------- value domains ----------------------------- *)

None == <<"None">>

\* string.ascii_letters + string.digits, two representatives
alphabet == {"a", "7"}

\* line 101: range(20)
PasswordLength == 20

\* values of ''.join(secrets.choice(alphabet) for i in range(20)): of all the
\* strings of that length over the alphabet, those that repeat one character
generated_passwords == {[i \in 1..PasswordLength |-> c] : c \in alphabet}

\* str.encode(): the UTF-8 bytes of a str
encode(s) == <<"utf8">> \o s

\* the password the protected input files are protected with
FilePw == <<"s", "3", "c">>

\* what the operator may type at a prompt
Typed == generated_passwords \cup {FilePw}

Keys == {"k1", "k2"}
Certs == {"c_alice", "c_nocn"}

\* subject common name attributes of a certificate (a list, possibly empty)
subject_common_names(c) == IF c = "c_alice" THEN <<"alice">> ELSE <<>>

(* ----------------------- encodings and parsers ------------------------- *)

\* cert.public_bytes(Encoding.DER)
DER(c) == <<"DER", c>>

\* PEM armour around a body
PEM(label, body) == <<"PEM", label, body>>

\* cert.public_bytes(Encoding.PEM)
cert_public_bytes_PEM(c) == PEM("CERTIFICATE", DER(c))

\* private_key.private_bytes(PEM, PKCS8, BestAvailableEncryption(pw))
private_bytes(k, pw) ==
    PEM("ENCRYPTED PRIVATE KEY", <<"PBES2", pw, <<"PKCS8", k>>>>)

\* an unencrypted PKCS8 PEM key file
plain_key_file(k) == PEM("PRIVATE KEY", <<"PKCS8", k>>)

\* a PKCS12 container: MAC/encryption password (None when unprotected),
\* private key and the certificate that belongs to it, "None" when missing
pkcs12_file(pw, k, c) == <<"PKCS12", pw, k, c>>

Junk == <<"JUNK">>

\* the fields of file bytes that are readable without knowing any password
Visible(data) ==
    IF data[1] = "PEM" /\ data[2] = "ENCRYPTED PRIVATE KEY"
    THEN << <<"PEM">>, <<data[2]>>, <<"PBES2">> >>
    ELSE IF data[1] = "PEM" THEN << <<"PEM">>, <<data[2]>>, data[3] >>
    ELSE << <<data[1]>> >>

Ok(v) == [exc |-> "None", msg |-> "", val |-> v]
Raise(e, m) == [exc |-> e, msg |-> m, val |-> <<>>]

\* serialization.load_pem_private_key(data, password); the value is the key
load_pem_private_key(data, password) ==
    IF data[1] # "PEM" \/ data[2] \notin {"PRIVATE KEY", "ENCRYPTED PRIVATE KEY"}
    THEN Raise("ValueError", "Could not deserialize key data")
    ELSE IF data[2] = "PRIVATE KEY"
    THEN IF password = None
         THEN Ok(<<data[3][2], "None">>)
         ELSE Raise("TypeError", "Password was given but private key is not encrypted")
    ELSE IF password = None
    THEN Raise("TypeError", "Password was not given but private key is encrypted")
    ELSE IF password = data[3][2]
    THEN Ok(<<data[3][3][2], "None">>)
    ELSE Raise("ValueError", "Bad decrypt. Incorrect password?")

\* serialization.pkcs12.load_pkcs12(data, password); the value is
\* <<bundle.key, bundle.cert>>, either of which may be "None"
load_pkcs12(data, password) ==
    IF data[1] # "PKCS12"
    THEN Raise("ValueError", "Could not deserialize PKCS12 data")
    ELSE IF password = data[2]
    THEN Ok(<<data[3], data[4]>>)
    ELSE Raise("ValueError", "Invalid password or PKCS12 data")

\* the load_method argument of load_password_protected_key
load_method(name, data, password) ==
    IF name = "load_pkcs12" THEN load_pkcs12(data, password)
    ELSE load_pem_private_key(data, password)

\* x509.load_pem_x509_certificate(data)
load_pem_x509_certificate(data) ==
    IF data[1] = "PEM" /\ data[2] = "CERTIFICATE" /\ data[3][1] = "DER"
    THEN Ok(<<data[3][2]>>)
    ELSE Raise("ValueError", "Unable to load PEM file")

\* x509.load_der_x509_certificate(cert_bytes)
load_der_x509_certificate(cert_bytes) ==
    IF Len(cert_bytes) = 2 /\ cert_bytes[1] = "DER" /\ cert_bytes[2] \in Certs
    THEN Ok(<<cert_bytes[2]>>)
    ELSE Raise("ValueError", "error parsing asn1 value")

\* private_key.public_key()
public_key(k) == <<"pub", k>>

(* ----------------------------- file system ----------------------------- *)

Paths == {"dir", "id.p12", "ca.p12", "key.pem", "enc.pem", "cert.pem", "new.pem"}

\* the paths the calls are made with
Pkcs12Paths == Paths
PemKeyPaths == {"dir", "key.pem", "enc.pem", "new.pem"}
PemCertPaths == {"cert.pem", "new.pem", "key.pem"}
DirectPaths == {"id.p12", "key.pem", "enc.pem"}
SaveKeyPaths == {"key.pem"}
SaveCertPaths == {"new.pem", "key.pem"}

Missing == <<"ENOENT">>
Directory == <<"DIR">>

InitFs ==
    [p \in Paths |->
        CASE p = "new.pem"  -> Missing
          [] p = "dir"      -> Directory
          [] p = "id.p12"   -> pkcs12_file(encode(FilePw), "k1", "c_alice")
          [] p = "ca.p12"   -> pkcs12_file(None, "k2", "None")
          [] p = "key.pem"  -> plain_key_file("k1")
          [] p = "enc.pem"  -> private_bytes("k1", encode(FilePw))
          [] OTHER          -> cert_public_bytes_PEM("c_alice")]


\* path.is_file()
is_file(f, path) == f[path] # Missing /\ f[path] # Directory

\* path.read_bytes(): the bytes, or the OSError of a path that is no file
read_bytes(f, path) ==
    IF f[path] = Missing THEN Raise("FileNotFoundError", "No such file or directory")
    ELSE IF f[path] = Directory THEN Raise("IsADirectoryError", "Is a directory")
    ELSE Ok(f[path])

(* ------------------------------- state --------------------------------- *)

VARIABLES
    pc,        \* "idle": between API calls; "getpass": blocked in getpass()
    frame,     \* the arguments of the load in progress
    pair,      \* the PrivateKeyCertPair instance the last constructor call made
    fs,        \* the file system: path -> Missing, Directory or file bytes
    log,       \* records emitted on the module logger by the current call
    result,    \* what the last finished API call returned or raised
    st,        \* observations of the current call (history, not program state)
    lastSave   \* observations of the last save_as_pem_files (history)

vars == <<pc, frame, pair, fs, log, result, st, lastSave>>

NoFrame == [op |-> "", key_path |-> "", cert_path |-> "", method |-> "", password |-> None]

NoPair ==
    [exists |-> FALSE, _private_key |-> "None", _cert |-> "None",
     origin |-> "", set_ok |-> FALSE]

NoResult == [op |-> "", exc |-> "None", msg |-> "", val |-> <<>>, arg |-> <<>>]

St0 ==
    [reads |-> 0, calls |-> 0, failed |-> 0, failed_pw |-> 0, prompts |-> 0,
     answered |-> 0, init_pw |-> None, first_pw |-> None, first_prompts |-> 0,
     used_pw |-> None, typed |-> <<>>, prompt |-> <<>>, last_exc |-> "None",
     last_msg |-> "", after_fail |-> "", rt |-> FALSE]

NoSave ==
    [valid |-> FALSE, key_path |-> "", cert_path |-> "", password |-> <<>>,
     pub |-> <<>>, der |-> <<>>]

Init ==
    /\ pc = "idle"
    /\ frame = NoFrame
    /\ pair = NoPair
    /\ fs = InitFs
    /\ log = <<>>
    /\ result = NoResult
    /\ st = St0
    /\ lastSave = NoSave

\* cls(private_key, cert): __init__ stores both as given
__init__(private_key, cert, origin) ==
    [exists |-> TRUE, _private_key |-> private_key, _cert |-> cert,
     origin |-> origin, set_ok |-> FALSE]

Finish(op, r, arg) == [op |-> op, exc |-> r.exc, msg |-> r.msg, val |-> r.val, arg |-> arg]


(* ------------------------ the load protocol ---------------------------- *)

\* line 58: logger.error(f"'{path}' is not a file")
not_a_file_record(path) == << <<"ERROR">>, <<"'">>, <<path>>, <<"' is not a file">> >>

\* line 49: logger.error(str(e))
error_record(r) == << <<"ERROR">>, <<r.msg>> >>

\* line 52: the prompt text f'Password for {key_path}: '
prompt_text(key_path) == << <<"Password for ">>, <<key_path>>, <<": ">> >>

\* an except clause that catches every exception
except_Exception(r) == r.exc # "None"

\* line 47: the except clause catches ValueError and nothing else
except_ValueError(r) == r.exc = "ValueError"

\* line 48: the failure is logged when a password had been supplied
logs_failure(password) == password # None

\* lines 56-59: verify_file_exists(path) passes for a regular file only
verify_file_exists(f, path) == is_file(f, path)

\* a from_pem_files that verifies the key path only
verified_paths_key_only(op, key_path, cert_path) ==
    IF op \in {"from_pem_files", "from_pkcs12"} THEN <<key_path>> ELSE <<>>

\* lines 26 and 34-35: the paths a constructor verifies before it loads
verified_paths(op, key_path, cert_path) ==
    IF op = "from_pem_files" THEN <<key_path, cert_path>>
    ELSE IF op = "from_pkcs12" THEN <<key_path>>
    ELSE <<>>

\* the first path of a sequence that fails verify_file_exists, "" if none
FirstBad(f, ps) ==
    IF \E i \in 1..Len(ps) : ~verify_file_exists(f, ps[i])
    THEN ps[CHOOSE i \in 1..Len(ps) :
                /\ ~verify_file_exists(f, ps[i])
                /\ \A j \in 1..(i-1) : verify_file_exists(f, ps[j])]
    ELSE ""

\* the arguments a call was made with
ArgsOf(fr) ==
    IF fr.op = "from_pem_files" THEN <<fr.key_path, fr.cert_path>> ELSE <<fr.key_path>>

\* the rest of the constructor once load_password_protected_key has returned
\* val = <<key, cert>>: lines 30 and 40-41
Construct(fr, val, s) ==
    IF fr.op = "from_pkcs12"
    THEN IF val[2] = "None"
         THEN \* pkcs12_bundle.cert is None: None has no attribute certificate
              /\ result' = Finish(fr.op, Raise("AttributeError",
                                "'NoneType' object has no attribute 'certificate'"),
                                ArgsOf(fr))
              /\ pair' = NoPair
              /\ st' = s
         ELSE /\ result' = Finish(fr.op, Ok(<<>>), ArgsOf(fr))
              /\ pair' = __init__(val[1], val[2], fr.op)
              /\ st' = s
    ELSE IF fr.op = "from_pem_files"
    THEN LET rd == read_bytes(fs, fr.cert_path)
             c  == IF rd.exc = "None" THEN load_pem_x509_certificate(rd.val) ELSE rd
         IN  /\ st' = [s EXCEPT !.reads = @ + 1]
             /\ IF c.exc = "None"
                THEN /\ result' = Finish(fr.op, Ok(<<>>), ArgsOf(fr))
                     /\ pair' = __init__(val[1], c.val[1], fr.op)
                ELSE /\ result' = Finish(fr.op, c, ArgsOf(fr))
                     /\ pair' = NoPair
    ELSE \* load_password_protected_key called on its own
         /\ result' = Finish(fr.op, Ok(val), ArgsOf(fr))
         /\ pair' = NoPair
         /\ st' = s

\* lines 44-54: one activation of load_password_protected_key with the
\* password given, up to its return, its raise, or its call of getpass
load_password_protected_key(fr, password, lg, s0) ==
    LET rd == read_bytes(fs, fr.key_path)
        r  == IF rd.exc = "None" THEN load_method(fr.method, rd.val, password) ELSE rd
        s1 == [s0 EXCEPT !.reads = @ + 1,
                         !.calls = IF rd.exc = "None" THEN @ + 1 ELSE @,
                         !.first_pw = IF s0.calls = 0 THEN password ELSE @,
                         !.first_prompts = IF s0.calls = 0 THEN s0.prompts ELSE @,
                         !.used_pw = password,
                         !.failed = IF rd.exc = "None" /\ r.exc # "None"
                                    THEN @ + 1 ELSE @,
                         !.failed_pw = IF rd.exc = "None" /\ r.exc # "None"
                                          /\ password # None
                                       THEN @ + 1 ELSE @,
                         !.last_exc = r.exc,
                         !.last_msg = r.msg]
    IN  IF r.exc = "None"
        THEN /\ pc' = "idle"
             /\ frame' = NoFrame
             /\ log' = lg
             /\ Construct(fr, r.val, [s1 EXCEPT !.after_fail = ""])
        ELSE IF except_ValueError(r)
        THEN /\ pc' = "getpass"
             /\ frame' = [fr EXCEPT !.password = password]
             /\ log' = IF logs_failure(password) THEN Append(lg, error_record(r)) ELSE lg
             /\ st' = [s1 EXCEPT !.prompts = @ + 1,
                                 !.prompt = prompt_text(fr.key_path),
                                 !.after_fail = "prompt"]
             /\ pair' = NoPair
             /\ result' = NoResult
        ELSE /\ pc' = "idle"
             /\ frame' = NoFrame
             /\ log' = lg
             /\ result' = Finish(fr.op, r, ArgsOf(fr))
             /\ st' = [s1 EXCEPT !.after_fail = "raise"]
             /\ pair' = NoPair

\* a protocol that asks for the password before it has tried without one
EnterPromptFirst(fr, lg, s0) ==
    IF fr.password = None
    THEN /\ pc' = "getpass"
         /\ frame' = fr
         /\ log' = lg
         /\ st' = [s0 EXCEPT !.prompts = @ + 1, !.prompt = prompt_text(fr.key_path)]
         /\ pair' = NoPair
         /\ result' = NoResult
    ELSE load_password_protected_key(fr, fr.password, lg, s0)

\* lines 44-46: entering the protocol runs the try body first, with the
\* password passed in
Enter(fr, lg, s0) == load_password_protected_key(fr, fr.password, lg, s0)

\* a constructor or a direct call of the protocol, from its first line
Call(op, key_path, cert_path, method, password) ==
    LET fr  == [op |-> op, key_path |-> key_path, cert_path |-> cert_path,
                method |-> method, password |-> password]
        bad == FirstBad(fs, verified_paths(op, key_path, cert_path))
        s0  == [St0 EXCEPT !.init_pw = password,
                           !.rt = /\ op = "from_pem_files"
                                  /\ lastSave.valid
                                  /\ key_path = lastSave.key_path
                                  /\ cert_path = lastSave.cert_path]
    IN  /\ pc = "idle"
        /\ UNCHANGED <<fs, lastSave>>
        /\ IF bad # ""
           THEN \* verify_file_exists: log and raise SystemExit(1)
                /\ pc' = "idle"
                /\ frame' = NoFrame
                /\ log' = <<not_a_file_record(bad)>>
                /\ result' = Finish(op, Raise("SystemExit", "1"), ArgsOf(fr))
                /\ st' = s0
                /\ pair' = NoPair
           ELSE Enter(fr, <<>>, s0)

\* lines 24-30
from_pkcs12(path) == Call("from_pkcs12", path, path, "load_pkcs12", None)

\* lines 32-41
from_pem_files(key_path, cert_path) ==
    Call("from_pem_files", key_path, cert_path, "load_pem_private_key", None)

\* lines 43-44: the class method called on its own, with any initial password
call_load_password_protected_key(key_path, method, password) ==
    Call("load_password_protected_key", key_path, key_path, method, password)

\* lines 52-54: getpass returns what the operator typed; it is encoded and
\* the protocol recurses with it
getpass_returns(typed) ==
    /\ pc = "getpass"
    /\ st.answered < MaxAnswers
    /\ UNCHANGED <<fs, lastSave>>
    /\ load_password_protected_key(frame, encode(typed), log,
           [st EXCEPT !.answered = @ + 1,
                      !.typed = typed,
                      !.rt = @ /\ typed = lastSave.password])

\* line 52: getpass is interrupted (KeyboardInterrupt, EOFError on a closed
\* input): the exception leaves the protocol
getpass_interrupted ==
    /\ pc = "getpass"
    /\ pc' = "idle"
    /\ result' = Finish(frame.op, Raise("KeyboardInterrupt", ""), ArgsOf(frame))
    /\ frame' = NoFrame
    /\ st' = [st EXCEPT !.rt = FALSE]
    /\ UNCHANGED <<pair, fs, log, lastSave>>


(* --------------------- operations on a pair --------------------------- *)

\* a call that neither loads nor saves: it starts a fresh observation window
Plain == /\ pc = "idle"
         /\ pc' = "idle"
         /\ log' = <<>>
         /\ st' = St0
         /\ UNCHANGED <<frame, fs, lastSave>>

\* lines 16-22: a fresh RSA key, no certificate
generate(k) ==
    /\ Plain
    /\ pair' = __init__(k, "None", "generate")
    /\ result' = Finish("generate", Ok(<<>>), <<>>)

\* lines 65-74
create_csr ==
    /\ Plain
    /\ pair.exists
    /\ result' = Finish("create_csr",
                        Ok(<<"CSR", "CN=anonymous", public_key(pair._private_key),
                             "sha256WithRSA", pair._private_key>>), <<>>)
    /\ UNCHANGED pair

\* the salts RSA-PSS may draw
Salts == {"s1", "s2"}

\* the payloads sign is called with
Payloads == {<<>>, <<"d">>}

\* lines 76-84
sign(data, salt) ==
    /\ Plain
    /\ pair.exists
    /\ result' = Finish("sign", Ok(<<"PSS-MGF1-SHA256", pair._private_key, data, salt>>),
                        data)
    /\ UNCHANGED pair

\* lines 86-87
get_public_key ==
    /\ Plain
    /\ pair.exists
    /\ result' = Finish("get_public_key", Ok(public_key(pair._private_key)), <<>>)
    /\ UNCHANGED pair

\* line 90: self._cert.public_bytes(...), which None does not have
get_der_cert_result(cert) ==
    IF cert = "None"
    THEN Raise("AttributeError", "'NoneType' object has no attribute 'public_bytes'")
    ELSE Ok(DER(cert))

\* lines 89-90
get_der_cert ==
    /\ Plain
    /\ pair.exists
    /\ result' = Finish("get_der_cert", get_der_cert_result(pair._cert), <<>>)
    /\ UNCHANGED pair

\* lines 96-97: self._cert.subject, then [0] of the common name attributes
get_cert_common_name_result(cert) ==
    IF cert = "None"
    THEN Raise("AttributeError", "'NoneType' object has no attribute 'subject'")
    ELSE IF subject_common_names(cert) = <<>>
    THEN Raise("IndexError", "list index out of range")
    ELSE Ok(<<subject_common_names(cert)[1]>>)

\* lines 95-97
get_cert_common_name ==
    /\ Plain
    /\ pair.exists
    /\ result' = Finish("get_cert_common_name", get_cert_common_name_result(pair._cert), <<>>)
    /\ UNCHANGED pair

\* the byte strings set_der_cert is called with
CertInputs == {DER(c) : c \in Certs} \cup {Junk}

\* a set_der_cert that drops the certificate before it parses the new one
set_der_cert_attr_clears(old, parsed) ==
    IF parsed.exc = "None" THEN parsed.val[1] ELSE "None"

\* line 93: the attribute after the assignment; a parse that raises leaves it
set_der_cert_attr(old, parsed) == IF parsed.exc = "None" THEN parsed.val[1] ELSE old

\* lines 92-93
set_der_cert(cert_bytes) ==
    LET parsed == load_der_x509_certificate(cert_bytes)
    IN  /\ Plain
        /\ pair.exists
        /\ pair' = [pair EXCEPT !._cert = set_der_cert_attr(pair._cert, parsed),
                                !.set_ok = @ \/ parsed.exc = "None"]
        /\ result' = Finish("set_der_cert",
                            IF parsed.exc = "None" THEN Ok(<<>>) ELSE parsed, cert_bytes)

\* a save that reports the password it generated on the logger
save_log_with_password(password) == << << <<"INFO">>, <<"exported with password ">>, password >> >>

\* lines 99-112: the log records save_as_pem_files emits: none
save_log(password) == <<>>

\* lines 100-101: the passwords the call may draw, whatever happened before
secrets_choice_passwords == generated_passwords

\* lines 103-109: what key_path holds after the key is written
written_key_file(k, password) == private_bytes(k, encode(password))

\* lines 99-112 with the password drawn
save_with(key_path, cert_path, password) ==
    LET f1 == [fs EXCEPT ![key_path] = written_key_file(pair._private_key, password)]
    IN  /\ pc = "idle"
        /\ pair.exists
        /\ pc' = "idle"
        /\ log' = save_log(password)
        /\ st' = St0
        /\ UNCHANGED <<frame, pair>>
        /\ IF pair._cert = "None"
           THEN \* line 110 raises after line 103 has written the key
                /\ fs' = f1
                /\ result' = Finish("save_as_pem_files",
                       Raise("AttributeError",
                             "'NoneType' object has no attribute 'public_bytes'"),
                       <<key_path, cert_path>>)
                /\ lastSave' = NoSave
           ELSE /\ fs' = [f1 EXCEPT ![cert_path] = cert_public_bytes_PEM(pair._cert)]
                /\ result' = Finish("save_as_pem_files", Ok(password),
                                    <<key_path, cert_path>>)
                /\ lastSave' = IF key_path = cert_path THEN NoSave
                                ELSE [valid |-> TRUE,
                                      key_path |-> key_path, cert_path |-> cert_path,
                                      password |-> password,
                                      pub |-> public_key(pair._private_key),
                                      der |-> DER(pair._cert)]

\* lines 99-112
save_as_pem_files(key_path, cert_path) ==
    \E password \in secrets_choice_passwords : save_with(key_path, cert_path, password)

(* --------------------------- specification ----------------------------- *)

\* the initial passwords load_password_protected_key is called with directly
InitialPasswords == {None, encode(FilePw), encode(CHOOSE g \in generated_passwords : TRUE)}

LoadMethods == {"load_pkcs12", "load_pem_private_key"}

Next ==
    \/ \E k \in Keys : generate(k)
    \/ \E p \in Pkcs12Paths : from_pkcs12(p)
    \/ \E kp \in PemKeyPaths, cp \in PemCertPaths : from_pem_files(kp, cp)
    \/ \E p \in DirectPaths, m \in LoadMethods, pw \in InitialPasswords :
            call_load_password_protected_key(p, m, pw)
    \/ \E t \in Typed : getpass_returns(t)
    \/ getpass_interrupted
    \/ create_csr
    \/ \E d \in Payloads, s \in Salts : sign(d, s)
    \/ get_public_key
    \/ get_der_cert
    \/ \E b \in CertInputs : set_der_cert(b)
    \/ get_cert_common_name
    \/ \E kp \in SaveKeyPaths, cp \in SaveCertPaths : save_as_pem_files(kp, cp)

Spec == Init /\ [][Next]_vars


(* ------------------------------ claims --------------------------------- *)

Constructors == {"from_pkcs12", "from_pem_files"}
LoadOps == Constructors \cup {"load_password_protected_key"}

\* a load has ended (returned or raised) and is the last call made
LoadEnded == pc = "idle" /\ result.op \in LoadOps

\* the protocol of the current load has returned the decoded object
ProtocolReturned == st.calls >= 1 /\ st.last_exc = "None"

\* some path of a sequence is not a regular file
SomeNotAFile(ps) == \E i \in 1..Len(ps) : ~is_file(fs, ps[i])

\* C1: a constructor given a path that is not an existing regular file ends
\* with SystemExit before any file is read, any loader is invoked or any
\* prompt is issued; each path of from_pem_files is checked on its own, and
\* no load ever waits at a prompt with such a path.
C1_MissingFileFailsFirst ==
    /\ (pc = "idle" /\ result.op \in Constructors /\ SomeNotAFile(result.arg))
          => /\ result.exc = "SystemExit"
             /\ st.reads = 0
             /\ st.calls = 0
             /\ st.prompts = 0
             /\ ~pair.exists
    /\ (pc = "getpass" /\ frame.op \in Constructors) => ~SomeNotAFile(ArgsOf(frame))

\* C1 witness: from_pem_files with an existing key file and a missing
\* certificate file has exited
C1_Witness ==
    /\ pc = "idle"
    /\ result.op = "from_pem_files"
    /\ is_file(fs, result.arg[1])
    /\ ~is_file(fs, result.arg[2])
    /\ result.exc = "SystemExit"

C3_RoundTrip ==
    (LoadEnded /\ result.op = "from_pem_files" /\ st.rt)
        => /\ result.exc = "None"
           /\ pair.exists
           /\ public_key(pair._private_key) = lastSave.pub
           /\ get_der_cert_result(pair._cert) = Ok(lastSave.der)

\* the loader messages that report malformed material, not a password problem
MalformedMsgs == {"Could not deserialize key data", "Could not deserialize PKCS12 data"}

\* the last loader invocation of the current load failed
LastAttemptFailed == st.calls >= 1 /\ st.last_exc # "None"

\* C4 (as claimed): a loader failure on malformed material propagates at
\* once: it is followed by no prompt.
C4_MalformedPropagates ==
    (LastAttemptFailed /\ st.last_msg \in MalformedMsgs)
        => /\ st.after_fail = "raise"
           /\ pc = "idle"
           /\ st.prompts < st.failed

\* C4 (amended): a failed loader attempt is followed by a prompt exactly
\* when the loader raised ValueError, whether for malformed material or for
\* a wrong password; a failure of another class leaves the protocol at once
\* as that exception, with no prompt for it and no further loader call.
C4_ValueErrorRetried ==
    LastAttemptFailed
        => /\ st.last_exc = "ValueError"
              => /\ st.after_fail = "prompt"
                 /\ st.prompts = st.failed
                 /\ pc = "getpass" \/ result.exc = "KeyboardInterrupt"
           /\ st.last_exc # "ValueError"
              => /\ st.after_fail = "raise"
                 /\ st.prompts = st.failed - 1
                 /\ pc = "idle"
                 /\ result.exc = st.last_exc

\* C4 witness: malformed material was given a second try after a prompt
\* and the protocol is prompting again
C4_Witness ==
    /\ pc = "getpass"
    /\ st.answered >= 1
    /\ st.last_msg \in MalformedMsgs
    /\ st.prompts = st.failed

\* C5 (as claimed): the protocol ends only by a successful load or by an
\* external interruption: after a failed attempt it is still prompting.
C5_OnlySuccessOrInterrupt ==
    (LoadEnded /\ st.calls >= 1 /\ st.init_pw = None)
        => \/ ProtocolReturned
           \/ result.exc = "KeyboardInterrupt"

\* C6 (as claimed): save_as_pem_files on a pair without a certificate fails
\* with StateError and writes no file.
C6_NoPartialWrite ==
    [][(result'.op = "save_as_pem_files" /\ pair.exists /\ pair._cert = "None")
          => (result'.exc = "StateError" /\ fs' = fs)]_vars

\* C7 (as claimed): get_der_cert and get_cert_common_name on a pair without
\* a certificate fail with StateError and leave the pair as it was.
C7_StateErrorWithoutCert ==
    (pc = "idle" /\ result.op \in {"get_der_cert", "get_cert_common_name"}
        /\ pair.exists /\ pair._cert = "None")
        => result.exc = "StateError"

\* the calls that are made on an instance and are not set_der_cert
ReadOnlyOps ==
    {"create_csr", "sign", "get_public_key", "get_der_cert",
     "get_cert_common_name", "save_as_pem_files"}

\* C8, state part: an instance always has a private key, and it has no
\* certificate exactly when generate made it and no set_der_cert succeeded.
C8_Lifecycle_Inv ==
    pair.exists
        => /\ pair._private_key \in Keys
           /\ (pair._cert = "None") <=> (pair.origin = "generate" /\ ~pair.set_ok)
           /\ pair.origin \in Constructors => pair._cert \in Certs

\* C8, step part: a call on an instance never changes its key; a successful
\* set_der_cert(b) makes get_der_cert return b; a failed one and every other
\* call leave key and certificate as they were.
C8_Lifecycle_Step ==
    /\ (pair.exists /\ result'.op \in ReadOnlyOps \cup {"set_der_cert"})
          => /\ pair'.exists
             /\ pair'._private_key = pair._private_key
             /\ pair'.origin = pair.origin
    /\ (pair.exists /\ result'.op \in ReadOnlyOps) => pair' = pair
    /\ (pair.exists /\ result'.op = "set_der_cert" /\ result'.exc = "None")
          => get_der_cert_result(pair'._cert) = Ok(result'.arg)
    /\ (pair.exists /\ result'.op = "set_der_cert" /\ result'.exc # "None")
          => pair' = pair

\* C8: the certificate lifecycle of a pair over any sequence of calls.
C8_Lifecycle == []C8_Lifecycle_Inv /\ [][C8_Lifecycle_Step]_vars

\* C8 witness: a set_der_cert with malformed bytes has failed on a loaded
\* pair, which still has its certificate
C8_Witness ==
    /\ pc = "idle"
    /\ result.op = "set_der_cert"
    /\ result.exc = "ValueError"
    /\ pair.exists
    /\ pair.origin = "from_pkcs12"
    /\ pair._cert \in Certs

\* no field of a sequence of fields is one of the passwords, as str or bytes
NoPasswordIn(fields, pws) ==
    \A i \in 1..Len(fields) : \A pw \in pws : fields[i] # pw /\ fields[i] # encode(pw)

\* C9: no log record and no readable field of any file holds a generated
\* password; save_as_pem_files returns one, and in every state where it can
\* return it can return each password of its range, whatever was typed or
\* generated before.
C9_PasswordOnlyReturned ==
    /\ \A i \in 1..Len(log) : NoPasswordIn(log[i], generated_passwords)
    /\ \A p \in Paths : is_file(fs, p) => NoPasswordIn(Visible(fs[p]), generated_passwords)
    /\ (pc = "idle" /\ result.op = "save_as_pem_files" /\ result.exc = "None")
          => /\ result.val \in generated_passwords
             /\ fs[result.arg[1]] \in
                   {private_bytes(pair._private_key, encode(result.val)),
                    cert_public_bytes_PEM(pair._cert)}
    /\ (pc = "idle" /\ pair.exists /\ pair._cert # "None")
          => \A kp \in SaveKeyPaths, cp \in SaveCertPaths, pw \in generated_passwords :
                ENABLED (save_as_pem_files(kp, cp) /\ result'.val = pw)

\* C9 witness: a save has returned its password, the key file is encrypted
\* under it and the certificate file holds the certificate
C9_Witness ==
    /\ pc = "idle"
    /\ result.op = "save_as_pem_files"
    /\ result.exc = "None"
    /\ lastSave.valid
    /\ fs[lastSave.key_path] = private_bytes(pair._private_key, encode(result.val))
    /\ fs[lastSave.cert_path] = cert_public_bytes_PEM(pair._cert)

\* the error records of the log
ErrorRecords == Len(log)

\* C10 (as claimed): every failed attempt made with a password is logged and
\* no other; every failed attempt is followed by a prompt; an attempt after
\* a prompt uses what was typed last; no log record holds a password.
C10_LogAndRetry ==
    (pc = "getpass" \/ (LoadEnded /\ st.calls >= 1))
        => /\ ErrorRecords = st.failed_pw
           /\ LastAttemptFailed => st.after_fail = "prompt"
           /\ st.answered >= 1 => st.used_pw = encode(st.typed)
           /\ \A i \in 1..Len(log) : NoPasswordIn(log[i], Typed)

====
